---- MODULE Spec2Model ----
(***************************************************************************)
(* Two-phase module resolution of module_identifier: deterministic scoring *)
(* (resolver.py), single-best mode (identify.py: identify_repo),           *)
(* all-modules mode (pipeline.py: run) and the fallback agent              *)
(* (llm/agent.py).                                                         *)
(*                                                                         *)
(* Strings that the code inspects (module names, paths, application names) *)
(* are sequences of one-character strings.  Scores are the code's floats   *)
(* held exactly as integers in units of 1/ScoreUnit.                       *)
(***************************************************************************)
EXTENDS Integers, Sequences, FiniteSets, TLC

VARIABLES
    pc,                  \* position of the running entry point
    entry,               \* "none" | "identify_repo" | "run"
    modules,             \* list[DiscoveredModule] returned by discover_modules
    candidates,          \* list[AppCandidate] returned by list_applications
    confidence_threshold,
    llm_config,          \* TRUE when an LLMConfig was passed, FALSE for None
    best,                \* identify_repo: best deterministic match or None
    ambiguous,           \* identify_repo: the ambiguity flag
    results,             \* run: dict path -> AppMatch or None, from resolver.resolve_modules
    matched,             \* run: dict path -> AppMatch
    unmatched_paths,     \* run: list of paths
    llm_batch,           \* agent.resolve_modules: its modules argument
    llm_i,               \* agent.resolve_modules: index of the module in flight
    llm_results,         \* agent.resolve_modules: dict path -> LLMMatch or None
    llm_matched,         \* run: dict path -> LLMMatch
    agent_calls,         \* log of the agent.resolve_module invocations
    agent_returns,       \* log of how each finished invocation ended and what it returned
    ret,                 \* value returned by the entry point
    raised,              \* exception that left the entry point, or "none"
    call,                \* a direct call of a resolver function: its name and arguments
    out,                 \* what the direct call returned
    _stdio_cm,           \* ContrastMCP: the stdio transport, "unset" | "entered" | "exited"
    _session_cm,         \* ContrastMCP: the client session, "unset" | "entered" | "exited"
    page,                \* list_applications: the page to request next
    requested,           \* list_applications: the page numbers requested so far
    served,              \* list_applications: the server's answers so far
    all_candidates,      \* list_applications: the candidates collected so far
    teardown             \* ContrastMCP.__aexit__: the resources closed, in order

\* the state of the registry connection
mcp_vars == <<_stdio_cm, _session_cm, page, requested, served, all_candidates, teardown>>

vars == <<pc, entry, modules, candidates, confidence_threshold, llm_config,
          best, ambiguous, results, matched, unmatched_paths, llm_batch, llm_i,
          llm_results, llm_matched, agent_calls, agent_returns, ret, raised,
          call, out, mcp_vars>>

-----------------------------------------------------------------------------
(* Bounds of the model *)

MaxModules == 3
MaxCandidates == 2

-----------------------------------------------------------------------------
(* Values *)

\* Python's None where a record (AppMatch, LLMMatch, PipelineResult) may stand
None == [none |-> TRUE]

\* Python's None where a string may stand: no string has a multi-character element
NoneStr == <<"None">>

\* Truthiness of an Optional[str]: None and "" are falsy
Truthy(s) == s # NoneStr /\ s # <<>>

\* One score unit is 1/ScoreUnit; 0.7 * i / u + 0.2 is exact for unions of up to 7 tokens
ScoreUnit == 10 * 420

DEFAULT_THRESHOLD == (7 * ScoreUnit) \div 10
AMBIGUITY_FLOOR == (6 * ScoreUnit) \div 10
RUN_DEFAULT_THRESHOLD == (5 * ScoreUnit) \div 10

_LLM_CONFIDENCE_MAP ==
    [c \in {"HIGH", "MEDIUM", "LOW"} |->
        CASE c = "HIGH" -> (95 * ScoreUnit) \div 100
          [] c = "MEDIUM" -> (80 * ScoreUnit) \div 100
          [] c = "LOW" -> (60 * ScoreUnit) \div 100]

Ecosystem == {"java", "node", "python", "go", "ruby", "dotnet", "php"}

\* _ECOSYSTEM_TO_LANGUAGE with dotnet mapped to ".NET" instead of ".NET Core"
_ECOSYSTEM_TO_LANGUAGE_DotNet ==
    [e \in {"java", "node", "python", "go", "ruby", "dotnet", "php"} |->
        CASE e = "java" -> "Java"
          [] e = "node" -> "Node"
          [] e = "python" -> "Python"
          [] e = "go" -> "Go"
          [] e = "ruby" -> "Ruby"
          [] e = "dotnet" -> ".NET"
          [] e = "php" -> "PHP"]

_ECOSYSTEM_TO_LANGUAGE ==
    [e \in Ecosystem |->
        CASE e = "java" -> "Java"
          [] e = "node" -> "Node"
          [] e = "python" -> "Python"
          [] e = "go" -> "Go"
          [] e = "ruby" -> "Ruby"
          [] e = "dotnet" -> ".NET Core"
          [] e = "php" -> "PHP"]

\* The fields of the AppMatch dataclass
AppMatchFields == {"module", "app_id", "app_name", "confidence", "search_term"}

-----------------------------------------------------------------------------
(* Strings *)

\* str.lower() on the characters the model uses
LowerChar(c) ==
    CASE c = "A" -> "a"
      [] c = "B" -> "b"
      [] c = "C" -> "c"
      [] OTHER -> c

Lower(s) == [i \in 1..Len(s) |-> LowerChar(s[i])]

Contains(s, c) == \E i \in 1..Len(s) : s[i] = c

FirstIndex(s, c) == CHOOSE i \in 1..Len(s) : s[i] = c /\ \A j \in 1..(i - 1) : s[j] # c

LastIndex(s, c) == CHOOSE i \in 1..Len(s) : s[i] = c /\ \A j \in (i + 1)..Len(s) : s[j] # c

\* s.split(c)[-1] and s.rsplit(c, 1)[-1]: the text after the last c
AfterLast(s, c) == SubSeq(s, LastIndex(s, c) + 1, Len(s))

\* s.split(c, 1)[-1]: the text after the first c
AfterFirst(s, c) == SubSeq(s, FirstIndex(s, c) + 1, Len(s))

\* The characters of the class [-_.\s]
Separators == {"-", "_", ".", " ", "\t", "\n", "\r"}

\* _tokenize without the removal of the empty token that re.split leaves at a
\* leading or trailing separator and for the empty string
_tokenize_KeepEmpty(name) ==
    LET s == Lower(name)
        IsToken(i, j) ==
            /\ i <= j
            /\ \A k \in i..j : s[k] \notin Separators
            /\ (i = 1 \/ s[i - 1] \in Separators)
            /\ (j = Len(s) \/ s[j + 1] \in Separators)
    IN  {SubSeq(s, p[1], p[2]) :
            p \in {q \in (1..Len(s)) \X (1..Len(s)) : IsToken(q[1], q[2])}}
        \cup (IF s = <<>> \/ s[1] \in Separators \/ s[Len(s)] \in Separators
                THEN {<<>>} ELSE {})

_tokenize(name) ==
    LET s == Lower(name)
        IsToken(i, j) ==
            /\ i <= j
            /\ \A k \in i..j : s[k] \notin Separators
            /\ (i = 1 \/ s[i - 1] \in Separators)
            /\ (j = Len(s) \/ s[j + 1] \in Separators)
    IN  {SubSeq(s, p[1], p[2]) :
            p \in {q \in (1..Len(s)) \X (1..Len(s)) : IsToken(q[1], q[2])}}

-----------------------------------------------------------------------------
(* resolver.py *)

\* extract_search_term testing the override against None only: an empty
\* override is returned
extract_search_term_EmptyOverride(module) ==
    IF module.contrast_app_name # NoneStr THEN module.contrast_app_name
    ELSE LET name == module.name IN
        IF Contains(name, ":") /\ module.ecosystem = "java"
            THEN AfterLast(name, ":")
        ELSE IF Len(name) > 0 /\ name[1] = "@" /\ Contains(name, "/")
            THEN AfterFirst(name, "/")
        ELSE IF Contains(name, "/") /\ module.ecosystem = "go"
            THEN AfterLast(name, "/")
        ELSE IF Contains(name, "/") /\ module.ecosystem = "php"
            THEN AfterLast(name, "/")
        ELSE name

extract_search_term(module) ==
    IF Truthy(module.contrast_app_name) THEN module.contrast_app_name
    ELSE LET name == module.name IN
        IF Contains(name, ":") /\ module.ecosystem = "java"
            THEN AfterLast(name, ":")
        ELSE IF Len(name) > 0 /\ name[1] = "@" /\ Contains(name, "/")
            THEN AfterFirst(name, "/")
        ELSE IF Contains(name, "/") /\ module.ecosystem = "go"
            THEN AfterLast(name, "/")
        ELSE IF Contains(name, "/") /\ module.ecosystem = "php"
            THEN AfterLast(name, "/")
        ELSE name

Min(a, b) == IF a <= b THEN a ELSE b

\* score_candidate dividing the overlap by the search term's tokens instead
\* of the union
score_candidate_OverTermTokens(module, candidate, search_term) ==
    LET app_name_lower == Lower(candidate.name)
        term_lower == Lower(search_term)
        expected_lang == _ECOSYSTEM_TO_LANGUAGE[module.ecosystem]
        lang_match == candidate.language = expected_lang
        module_tokens == _tokenize(search_term)
        app_tokens == _tokenize(candidate.name)
        intersection == module_tokens \cap app_tokens
        base == (7 * Cardinality(intersection) * ScoreUnit)
                    \div (10 * Cardinality(module_tokens))
        bonus == IF lang_match THEN (2 * ScoreUnit) \div 10 ELSE 0
    IN  IF app_name_lower = term_lower
            THEN (IF lang_match THEN ScoreUnit ELSE (8 * ScoreUnit) \div 10)
        ELSE IF module_tokens = {} \/ app_tokens = {} THEN 0
        ELSE Min(base + bonus, ScoreUnit)

score_candidate(module, candidate, search_term) ==
    LET app_name_lower == Lower(candidate.name)
        term_lower == Lower(search_term)
        expected_lang == _ECOSYSTEM_TO_LANGUAGE[module.ecosystem]
        lang_match == candidate.language = expected_lang
        module_tokens == _tokenize(search_term)
        app_tokens == _tokenize(candidate.name)
        intersection == module_tokens \cap app_tokens
        union == module_tokens \cup app_tokens
        base == (7 * Cardinality(intersection) * ScoreUnit)
                    \div (10 * Cardinality(union))
        bonus == IF lang_match THEN (2 * ScoreUnit) \div 10 ELSE 0
    IN  IF app_name_lower = term_lower
            THEN (IF lang_match THEN ScoreUnit ELSE (8 * ScoreUnit) \div 10)
        ELSE IF module_tokens = {} \/ app_tokens = {} THEN 0
        ELSE Min(base + bonus, ScoreUnit)

\* BestOver replacing the running best on an equal score too: the last
\* candidate of a tie wins
RECURSIVE BestOver_LastWins(_, _, _, _, _)
BestOver_LastWins(module, cands, search_term, i, acc) ==
    IF i > Len(cands) THEN acc
    ELSE LET score == score_candidate(module, cands[i], search_term) IN
         BestOver_LastWins(module, cands, search_term, i + 1,
                  IF score >= acc[2] /\ score > 0 THEN <<i, score>> ELSE acc)

\* The loop of resolve_module: <<best_candidate index or 0, best_score>>
RECURSIVE BestOver(_, _, _, _, _)
BestOver(module, cands, search_term, i, acc) ==
    IF i > Len(cands) THEN acc
    ELSE LET score == score_candidate(module, cands[i], search_term) IN
         BestOver(module, cands, search_term, i + 1,
                  IF score > acc[2] THEN <<i, score>> ELSE acc)

AppMatch(module, app_id, app_name, confidence, search_term) ==
    [module |-> module, app_id |-> app_id, app_name |-> app_name,
     confidence |-> confidence, search_term |-> search_term]

\* resolve_module rejecting a best score equal to the threshold
resolve_module_StrictThreshold(module, cands, threshold) ==
    LET search_term == extract_search_term(module)
        b == BestOver(module, cands, search_term, 1, <<0, 0>>)
    IN  IF cands = <<>> THEN None
        ELSE IF b[1] = 0 \/ b[2] <= threshold THEN None
        ELSE AppMatch(module, cands[b[1]].app_id, cands[b[1]].name, b[2], search_term)

resolve_module(module, cands, threshold) ==
    LET search_term == extract_search_term(module)
        b == BestOver(module, cands, search_term, 1, <<0, 0>>)
    IN  IF cands = <<>> THEN None
        ELSE IF b[1] = 0 \/ b[2] < threshold THEN None
        ELSE AppMatch(module, cands[b[1]].app_id, cands[b[1]].name, b[2], search_term)

-----------------------------------------------------------------------------
(* discover.py *)

SKIP_DIRS ==
    { <<"n", "o", "d", "e", "_", "m", "o", "d", "u", "l", "e", "s">>,
      <<"v", "e", "n", "d", "o", "r">>,
      <<"v", "e", "n", "d", "o", "r", "s">>,
      <<"b", "o", "w", "e", "r", "_", "c", "o", "m", "p", "o", "n", "e", "n", "t", "s">>,
      <<"d", "i", "s", "t">>,
      <<"b", "u", "i", "l", "d">>,
      <<"t", "a", "r", "g", "e", "t">>,
      <<"o", "u", "t">>,
      <<"b", "i", "n">>,
      <<"o", "b", "j">>,
      <<".", "g", "i", "t">>,
      <<".", "g", "i", "t", "h", "u", "b">>,
      <<".", "m", "v", "n">>,
      <<"g", "r", "a", "d", "l", "e">>,
      <<"_", "_", "p", "y", "c", "a", "c", "h", "e", "_", "_">>,
      <<".", "v", "e", "n", "v">>,
      <<"v", "e", "n", "v">>,
      <<"t", "e", "s", "t">>,
      <<"t", "e", "s", "t", "s">>,
      <<"t", "e", "s", "t", "d", "a", "t", "a">>,
      <<"f", "i", "x", "t", "u", "r", "e", "s">>,
      <<"m", "o", "c", "k">>,
      <<"m", "o", "c", "k", "s">>,
      <<"b", "u", "i", "l", "d", "S", "r", "c">> }

\* PurePosixPath(path).parts: the segments between '/', without empty and '.' segments
PathParts(path) ==
    LET IsPart(i, j) ==
            /\ i <= j
            /\ \A k \in i..j : path[k] # "/"
            /\ (i = 1 \/ path[i - 1] = "/")
            /\ (j = Len(path) \/ path[j + 1] = "/")
    IN  {SubSeq(path, q[1], q[2]) :
            q \in {r \in (1..Len(path)) \X (1..Len(path)) : IsPart(r[1], r[2])}}
        \ {<<".">>}

_in_skip_dir(module_path) ==
    IF module_path = <<".">> THEN FALSE
    ELSE PathParts(module_path) \cap SKIP_DIRS # {}

\* The loop of discover_modules over declared + scanned: <<seen, results>>
RECURSIVE DiscoverOver(_, _, _)
DiscoverOver(all, i, acc) ==
    IF i > Len(all) THEN acc
    ELSE LET module == all[i]
             key == <<module.path, module.ecosystem>>
         IN  DiscoverOver(all, i + 1,
                 IF key \notin acc[1] /\ ~_in_skip_dir(module.path)
                   THEN <<acc[1] \cup {key}, Append(acc[2], module)>>
                   ELSE acc)

\* discover_modules keeping one module per path, whatever the ecosystem
discover_modules_ByPath(declared, scanned) ==
    LET all == declared \o scanned
        keep == SelectSeq([i \in 1..Len(all) |-> i],
                          LAMBDA i : /\ \A j \in 1..(i - 1) : all[j].path # all[i].path
                                     /\ ~_in_skip_dir(all[i].path))
    IN  [k \in 1..Len(keep) |-> all[keep[k]]]

\* discover_modules on the lists that discover_declared_modules and
\* scan_modules return
discover_modules(declared, scanned) ==
    DiscoverOver(declared \o scanned, 1, <<{}, <<>>>>)[2]

-----------------------------------------------------------------------------
(* Python dicts: insertion-ordered lists of <<key, value>> with unique keys *)

DictKeys(d) == {d[i][1] : i \in 1..Len(d)}

DictKeyList(d) == [i \in 1..Len(d) |-> d[i][1]]

DictGet(d, k) == d[CHOOSE i \in 1..Len(d) : d[i][1] = k][2]

DictPut(d, k, v) ==
    IF k \in DictKeys(d)
        THEN [i \in 1..Len(d) |-> IF d[i][1] = k THEN <<k, v>> ELSE d[i]]
        ELSE Append(d, <<k, v>>)

\* DictNotNone without its filter: entries holding None stay
DictNotNone_Unfiltered(d) == d

\* {k: v for k, v in d.items() if v is not None}
DictNotNone(d) == SelectSeq(d, LAMBDA kv : kv[2] # None)

\* DictNoneKeys without its filter: every key is listed
DictNoneKeys_AllKeys(d) == DictKeyList(d)

\* [k for k, v in d.items() if v is None]
DictNoneKeys(d) == DictKeyList(SelectSeq(d, LAMBDA kv : kv[2] = None))

RECURSIVE ResolveInto(_, _, _, _, _)
ResolveInto(mods, cands, threshold, i, d) ==
    IF i > Len(mods) THEN d
    ELSE ResolveInto(mods, cands, threshold, i + 1,
                     DictPut(d, mods[i].path, resolve_module(mods[i], cands, threshold)))

\* resolver.resolve_modules: {module.path: resolve_module(...) for module in modules}
resolve_modules(mods, cands, threshold) == ResolveInto(mods, cands, threshold, 1, <<>>)

-----------------------------------------------------------------------------
(* identify.py *)

\* The loop of _best_deterministic_match
RECURSIVE BestMatchOver(_, _, _, _)
BestMatchOver(mods, cands, i, acc) ==
    IF i > Len(mods) THEN acc
    ELSE LET match == resolve_module(mods[i], cands, 0) IN
         BestMatchOver(mods, cands, i + 1,
             IF match # None /\ (acc = None \/ match.confidence > acc.confidence)
                 THEN match ELSE acc)

\* _best_deterministic_match keeping the first module's match: the confidence
\* comparison is dropped
_best_deterministic_match_FirstMatch(mods, cands) ==
    LET hits == {i \in 1..Len(mods) : resolve_module(mods[i], cands, 0) # None}
    IN  IF hits = {} THEN None
        ELSE resolve_module(mods[CHOOSE i \in hits : \A j \in hits : i <= j], cands, 0)

_best_deterministic_match(mods, cands) == BestMatchOver(mods, cands, 1, None)

\* The loop of _is_ambiguous: the count of strong candidates, cut off at 2
RECURSIVE StrongOver(_, _, _, _, _, _)
StrongOver(module, cands, term, floor, i, strong) ==
    IF strong > 1 THEN TRUE
    ELSE IF i > Len(cands) THEN FALSE
    ELSE StrongOver(module, cands, term, floor, i + 1,
             IF score_candidate(module, cands[i], term) >= floor
                 THEN strong + 1 ELSE strong)

\* _is_ambiguous with its counter started at 1: one strong candidate suffices
_is_ambiguous_CountFromOne(module, cands, floor) ==
    StrongOver(module, cands, extract_search_term(module), floor, 1, 1)

_is_ambiguous(module, cands, floor) ==
    StrongOver(module, cands, extract_search_term(module), floor, 1, 0)

\* IsAmbiguousBest without the from_yaml exemption
IsAmbiguousBest_NoYamlSkip(b, cands) ==
    /\ b # None
    /\ _is_ambiguous(b.module, cands, AMBIGUITY_FLOOR)

\* IsAmbiguousBest counting every candidate as strong: floor 0.0
IsAmbiguousBest_FloorZero(b, cands) ==
    /\ b # None
    /\ ~Truthy(b.module.contrast_app_name)
    /\ _is_ambiguous(b.module, cands, 0)

\* identify_repo's ambiguous flag: an override (from_yaml) skips the check
IsAmbiguousBest(b, cands) ==
    /\ b # None
    /\ ~Truthy(b.module.contrast_app_name)
    /\ _is_ambiguous(b.module, cands, AMBIGUITY_FLOOR)

\* The keyword arguments identify_repo passes to AppMatch for an agent match
LLMAppMatchKwargs ==
    {"module", "app_id", "app_name", "confidence", "search_term", "source"}

-----------------------------------------------------------------------------
(* pipeline.py *)

PipelineResult(m, u, l, t) ==
    [matched |-> m, unmatched |-> u, llm_matched |-> l, total |-> t]

Range(s) == {s[i] : i \in 1..Len(s)}

\* UnmatchedModules following the order of the unmatched paths' last
\* occurrence backwards: the module list reversed
UnmatchedModules_Reversed(mods, paths) ==
    LET sel == SelectSeq(mods, LAMBDA m : m.path \in Range(paths))
    IN  [i \in 1..Len(sel) |-> sel[Len(sel) + 1 - i]]

\* [m for m in modules if m.path in unmatched_paths]
UnmatchedModules(mods, paths) == SelectSeq(mods, LAMBDA m : m.path \in Range(paths))

-----------------------------------------------------------------------------
(* llm/agent.py *)

MAX_MESSAGES_BEFORE_TRIM == 20

MESSAGES_TO_KEEP_AFTER_TRIM == 10

\* _trim_messages trimming from 20 messages on instead of from 21
_trim_messages_TrimAtLimit(messages) ==
    IF Len(messages) >= MAX_MESSAGES_BEFORE_TRIM
      THEN SubSeq(messages, 1, 1)
               \o SubSeq(messages, Len(messages) - MESSAGES_TO_KEEP_AFTER_TRIM + 1,
                          Len(messages))
      ELSE messages

\* messages[:1] + messages[-MESSAGES_TO_KEEP_AFTER_TRIM:] for a long history
_trim_messages(messages) ==
    IF Len(messages) > MAX_MESSAGES_BEFORE_TRIM
      THEN SubSeq(messages, 1, 1)
               \o SubSeq(messages, Len(messages) - MESSAGES_TO_KEEP_AFTER_TRIM + 1,
                          Len(messages))
      ELSE messages

\* The module-derived strings resolve_module formats into AGENT_INSTRUCTIONS
\* and into the user prompt
Instructions(module) ==
    [module_name |-> module.name,
     module_path |-> module.path,
     contrast_app_name_line |->
         IF Truthy(module.contrast_app_name) THEN module.contrast_app_name ELSE <<>>,
     prompt_name |-> module.name,
     prompt_path |-> module.path]

\* One invocation of agent.resolve_module, as logged when it starts
AgentCall(module, already_matched) ==
    [module |-> module, already_matched |-> already_matched,
     instructions |-> Instructions(module)]

\* What resolve_module returns for the agent's structured output
LLMReturn(output) == IF output.application_id = "NOT_FOUND" THEN None ELSE output

\* The steps of resolve_module that run before its try block
SetupSteps == {"get_model", "create_mcp_toolsets", "Agent"}

-----------------------------------------------------------------------------
(* Inputs *)

Module(name, path, manifest, ecosystem, contrast_app_name) ==
    [name |-> name, path |-> path, manifest |-> manifest,
     ecosystem |-> ecosystem, contrast_app_name |-> contrast_app_name]

AppCandidate(app_id, name, language) ==
    [app_id |-> app_id, name |-> name, language |-> language]

ModulePool ==
    { Module(<<"a", "-", "b">>, <<".">>, "pom.xml", "java", NoneStr),
      Module(<<"a", "-", "b">>, <<".">>, "package.json", "node", NoneStr),
      Module(<<"c">>, <<"u", "i">>, "package.json", "node", NoneStr),
      Module(<<"a", "-", "b">>, <<"s", "v", "c">>, "pom.xml", "java",
             <<"c", "-", "a", "-", "b">>),
      Module(<<"x", "{">>, <<"l", "'">>, "pyproject.toml", "python", NoneStr) }

CandidatePool ==
    { AppCandidate("1", <<"a", "-", "b">>, "Java"),
      AppCandidate("2", <<"c", "-", "a", "-", "b">>, "Java"),
      AppCandidate("3", <<"C">>, "Node") }

\* the defaults of pipeline.run and of identify_repo
Thresholds == {RUN_DEFAULT_THRESHOLD, DEFAULT_THRESHOLD}

AgentOutputs ==
    { [application_id |-> "NOT_FOUND", application_name |-> "NOT_FOUND", confidence |-> "LOW"],
      [application_id |-> "99", application_name |-> "other", confidence |-> "HIGH"] }

SeqsUpTo(S, n) == UNION {[1..k -> S] : k \in 0..n}

Injective(s) == \A i, j \in 1..Len(s) : i # j => s[i] # s[j]

\* discover_modules keeps (path, ecosystem) pairs unique
UniqueKeys(mods) ==
    \A i, j \in 1..Len(mods) :
        i # j => <<mods[i].path, mods[i].ecosystem>> # <<mods[j].path, mods[j].ecosystem>>

ModuleLists == {s \in SeqsUpTo(ModulePool, MaxModules) : UniqueKeys(s)}

CandidateLists == {s \in SeqsUpTo(CandidatePool, MaxCandidates) : Injective(s)}

-----------------------------------------------------------------------------
(* The entry points *)

Init ==
    /\ pc = "idle"
    /\ entry = "none"
    /\ modules = <<>>
    /\ candidates = <<>>
    /\ confidence_threshold = 0
    /\ llm_config = FALSE
    /\ best = None
    /\ ambiguous = FALSE
    /\ results = <<>>
    /\ matched = <<>>
    /\ unmatched_paths = <<>>
    /\ llm_batch = <<>>
    /\ llm_i = 0
    /\ llm_results = <<>>
    /\ llm_matched = <<>>
    /\ agent_calls = <<>>
    /\ agent_returns = <<>>
    /\ ret = None
    /\ raised = "none"
    /\ call = [fn |-> "none"]
    /\ out = None
    /\ _stdio_cm = "unset"
    /\ _session_cm = "unset"
    /\ page = 1
    /\ requested = <<>>
    /\ served = <<>>
    /\ all_candidates = <<>>
    /\ teardown = <<>>

\* return value
Return(value) ==
    /\ pc' = "done"
    /\ ret' = value
    /\ raised' = raised

\* an exception leaves the entry point
Raise(exception) ==
    /\ pc' = "raised"
    /\ raised' = exception
    /\ ret' = ret

\* agent.resolve_module is entered: context and instructions are built
StartLLM(module, already_matched) ==
    /\ pc' = "llm_setup"
    /\ agent_calls' = Append(agent_calls, AgentCall(module, already_matched))
    /\ UNCHANGED <<ret, raised>>

\* identify_repo up to the registry fetch: discovery at depth 2
identify_repo_call(threshold, cfg, mods) ==
    /\ UNCHANGED <<call, out, mcp_vars>>
    /\ pc = "idle"
    /\ entry' = "identify_repo"
    /\ confidence_threshold' = threshold
    /\ llm_config' = cfg
    /\ modules' = mods
    /\ pc' = "fetch"
    /\ UNCHANGED <<candidates, best, ambiguous, results, matched, unmatched_paths, llm_batch,
                   llm_i, llm_results, llm_matched, agent_calls, agent_returns,
                   ret, raised>>

\* pipeline.run up to the registry fetch; its llm_config is not optional
run_call(threshold, mods) ==
    /\ UNCHANGED <<call, out, mcp_vars>>
    /\ pc = "idle"
    /\ entry' = "run"
    /\ confidence_threshold' = threshold
    /\ llm_config' = TRUE
    /\ modules' = mods
    /\ pc' = "fetch"
    /\ UNCHANGED <<candidates, best, ambiguous, results, matched, unmatched_paths, llm_batch,
                   llm_i, llm_results, llm_matched, agent_calls, agent_returns,
                   ret, raised>>

\* the registry fetch fails: neither entry point catches it
list_applications_raises ==
    /\ UNCHANGED <<call, out, mcp_vars>>
    /\ pc = "fetch"
    /\ Raise("RegistryError")
    /\ UNCHANGED <<entry, modules, candidates, confidence_threshold, llm_config, best,
                   ambiguous, results, matched, unmatched_paths, llm_batch, llm_i, llm_results,
                   llm_matched, agent_calls, agent_returns>>

\* identify_repo_scored without the 'if not modules' return: modules[0] is
\* read from an empty list
identify_repo_scored_NoModulesCheck(apps) ==
    /\ UNCHANGED <<call, out, mcp_vars>>
    /\ pc = "fetch"
    /\ entry = "identify_repo"
    /\ candidates' = apps
    /\ UNCHANGED <<entry, modules, confidence_threshold, llm_config, results, matched,
                   unmatched_paths, llm_batch, llm_i, llm_results, llm_matched,
                   agent_returns>>
    /\ IF apps = <<>>
         THEN /\ Return(None)
              /\ UNCHANGED <<best, ambiguous, agent_calls>>
         ELSE /\ best' = _best_deterministic_match(modules, apps)
              /\ ambiguous' = IsAmbiguousBest(best', apps)
              /\ IF best' # None /\ best'.confidence >= confidence_threshold /\ ~ambiguous'
                   THEN Return(best') /\ UNCHANGED agent_calls
                 ELSE IF llm_config
                   THEN IF best' = None /\ modules = <<>>
                          THEN Raise("IndexError") /\ UNCHANGED agent_calls
                          ELSE StartLLM(IF best' # None THEN best'.module ELSE modules[1], <<>>)
                 ELSE Return(None) /\ UNCHANGED agent_calls

\* identify_repo from the fetched candidates to its return or to the agent call
identify_repo_scored(apps) ==
    /\ UNCHANGED <<call, out, mcp_vars>>
    /\ pc = "fetch"
    /\ entry = "identify_repo"
    /\ candidates' = apps
    /\ UNCHANGED <<entry, modules, confidence_threshold, llm_config, results, matched,
                   unmatched_paths, llm_batch, llm_i, llm_results, llm_matched,
                   agent_returns>>
    /\ IF apps = <<>> \/ modules = <<>>
         THEN /\ Return(None)
              /\ UNCHANGED <<best, ambiguous, agent_calls>>
         ELSE /\ best' = _best_deterministic_match(modules, apps)
              /\ ambiguous' = IsAmbiguousBest(best', apps)
              /\ IF best' # None /\ best'.confidence >= confidence_threshold /\ ~ambiguous'
                   THEN Return(best') /\ UNCHANGED agent_calls
                 ELSE IF llm_config
                   THEN StartLLM(IF best' # None THEN best'.module ELSE modules[1], <<>>)
                 ELSE Return(None) /\ UNCHANGED agent_calls

\* pipeline.run from the fetched candidates through phase 1 to its return or to
\* the first agent call of llm_resolve_modules
run_resolved(apps) ==
    /\ UNCHANGED <<call, out, mcp_vars>>
    /\ pc = "fetch"
    /\ entry = "run"
    /\ candidates' = apps
    /\ UNCHANGED <<entry, modules, confidence_threshold, llm_config, best, ambiguous,
                   llm_matched, agent_returns>>
    /\ results' = resolve_modules(modules, apps, confidence_threshold)
    /\ matched' = DictNotNone(results')
    /\ unmatched_paths' = DictNoneKeys(results')
    /\ IF unmatched_paths' # <<>>
         THEN /\ llm_batch' = UnmatchedModules(modules, unmatched_paths')
              /\ llm_results' = <<>>
              /\ llm_i' = 1
              /\ StartLLM(llm_batch'[1], matched')
         ELSE /\ Return(PipelineResult(matched', unmatched_paths', <<>>, Len(modules)))
              /\ UNCHANGED <<llm_batch, llm_results, llm_i, agent_calls>>

\* get_model, create_mcp_toolsets and Agent(...) all succeed; agent.run is awaited
llm_setup_ok ==
    /\ UNCHANGED <<call, out, mcp_vars>>
    /\ pc = "llm_setup"
    /\ pc' = "agent_run"
    /\ UNCHANGED <<entry, modules, candidates, confidence_threshold, llm_config, best,
                   ambiguous, results, matched, unmatched_paths, llm_batch, llm_i, llm_results,
                   llm_matched, agent_calls, agent_returns, ret, raised>>

\* one of the steps before the try block raises: nothing catches it
llm_setup_raises(step) ==
    /\ UNCHANGED <<call, out, mcp_vars>>
    /\ pc = "llm_setup"
    /\ Raise(step)
    /\ UNCHANGED <<entry, modules, candidates, confidence_threshold, llm_config, best,
                   ambiguous, results, matched, unmatched_paths, llm_batch, llm_i, llm_results,
                   llm_matched, agent_calls, agent_returns>>

\* identify_repo after llm_resolve returned r
identify_repo_llm_done(r) ==
    /\ UNCHANGED <<llm_batch, llm_i, llm_results, llm_matched, unmatched_paths,
                   agent_calls>>
    /\ IF r # None
         THEN LET target == agent_calls[Len(agent_calls)].module IN
              IF LLMAppMatchKwargs \subseteq AppMatchFields
                THEN Return(AppMatch(target, r.application_id, r.application_name,
                                     _LLM_CONFIDENCE_MAP[r.confidence],
                                     extract_search_term(target)))
                ELSE Raise("TypeError")
         ELSE Return(None)

\* run_llm_done handing the next invocation the deterministic matches
\* extended by the agent matches of the batch so far
run_llm_done_Accumulates(r) ==
    /\ llm_results' = DictPut(llm_results, llm_batch[llm_i].path, r)
    /\ IF llm_i < Len(llm_batch)
         THEN /\ llm_i' = llm_i + 1
              /\ StartLLM(llm_batch[llm_i + 1], matched \o DictNotNone(llm_results'))
              /\ UNCHANGED <<llm_matched, unmatched_paths>>
         ELSE /\ llm_matched' = DictNotNone(llm_results')
              /\ unmatched_paths' = DictNoneKeys(llm_results')
              /\ Return(PipelineResult(matched, unmatched_paths', llm_matched',
                                       Len(modules)))
              /\ UNCHANGED <<llm_i, agent_calls>>

\* agent.resolve_modules after resolve_module returned r for the module in
\* flight, then the rest of pipeline.run once the batch is finished
run_llm_done(r) ==
    /\ llm_results' = DictPut(llm_results, llm_batch[llm_i].path, r)
    /\ IF llm_i < Len(llm_batch)
         THEN /\ llm_i' = llm_i + 1
              /\ StartLLM(llm_batch[llm_i + 1], matched)
              /\ UNCHANGED <<llm_matched, unmatched_paths>>
         ELSE /\ llm_matched' = DictNotNone(llm_results')
              /\ unmatched_paths' = DictNoneKeys(llm_results')
              /\ Return(PipelineResult(matched, unmatched_paths', llm_matched',
                                       Len(modules)))
              /\ UNCHANGED <<llm_i, agent_calls>>

LLMDone(outcome, r) ==
    /\ UNCHANGED <<call, out, mcp_vars>>
    /\ agent_returns' = Append(agent_returns, [outcome |-> outcome, value |-> r])
    /\ UNCHANGED <<entry, modules, candidates, confidence_threshold, llm_config, best,
                   ambiguous, results, matched, llm_batch>>
    /\ IF entry = "identify_repo" THEN identify_repo_llm_done(r) ELSE run_llm_done(r)

\* agent.run returns a structured output
agent_run_returns(output) ==
    /\ pc = "agent_run"
    /\ LLMDone(IF output.application_id = "NOT_FOUND" THEN "not_found" ELSE "match",
               LLMReturn(output))

\* agent.run raises (transport error, malformed output, usage limit exceeded):
\* the except clause of resolve_module returns None
agent_run_raises ==
    /\ pc = "agent_run"
    /\ LLMDone("error", None)

Next ==
    \/ \E t \in Thresholds, cfg \in BOOLEAN, mods \in ModuleLists :
           identify_repo_call(t, cfg, mods)
    \/ \E t \in Thresholds, mods \in ModuleLists : run_call(t, mods)
    \/ list_applications_raises
    \/ \E apps \in CandidateLists : identify_repo_scored(apps)
    \/ \E apps \in CandidateLists : run_resolved(apps)
    \/ llm_setup_ok
    \/ \E step \in SetupSteps : llm_setup_raises(step)
    \/ \E output \in AgentOutputs : agent_run_returns(output)
    \/ agent_run_raises

Spec == Init /\ [][Next]_vars

-----------------------------------------------------------------------------
(* Direct calls of the resolver's functions (resolver.py, identify.py), as   *)
(* tests/test_resolver.py and tests/test_identify.py make them              *)

\* declared names, override names, search terms and application names
DirectNames ==
    { <<>>,
      <<"-">>,
      <<" ", ".">>,
      <<"a">>,
      <<"A">>,
      <<"b">>,
      <<"a", "-", "b">>,
      <<"A", "-", "B">>,
      <<"b", "_", "a">>,
      <<"c", "-", "a", "-", "b">>,
      <<"c", ".", "b">>,
      <<"a", ":", "b">>,
      <<"@", "a", "/", "b">>,
      <<"@", "a", "/", "b", "/", "c">>,
      <<"a", "/", "b", "/", "c">>,
      <<"a", "/">> }

\* contrast_app_name: None, "" and a name that the stripping rules would cut
DirectOverrides == {NoneStr, <<>>, <<"a", "/", "b", ":", "c">>}

\* AppCandidate.language: the registry's tags, possibly empty or unknown to the resolver
Languages == {"Java", "Node", "Python", "Go", "Ruby", ".NET Core", "PHP", "", ".NET"}

DirectThresholds == {0, RUN_DEFAULT_THRESHOLD, DEFAULT_THRESHOLD, ScoreUnit}

DirectFloors == {0, (2 * ScoreUnit) \div 10, AMBIGUITY_FLOOR, ScoreUnit}

\* the registry pool and a candidate that ties with "1" on every module
DirectCandidatePool == CandidatePool \cup {AppCandidate("4", <<"A", "-", "b">>, "Java")}

\* the module pool and a second java module whose name differs from "a-b" in
\* case only
DirectModulePool ==
    ModulePool \cup {Module(<<"A", "-", "B">>, <<"l", "i", "b">>, "pom.xml", "java", NoneStr)}

DirectModuleLists == {s \in SeqsUpTo(DirectModulePool, MaxModules) : UniqueKeys(s)}

\* what discover_declared_modules yields: modules named by the root manifest
DeclaredPool ==
    { Module(<<"m">>, <<"m", "o", "d">>, "settings.gradle.kts", "java", NoneStr),
      Module(<<"w">>, <<"m", "o", "d">>, "package.json(workspaces)", "node", NoneStr),
      Module(<<"t">>, <<"t", "e", "s", "t", "/", "m">>, "pom.xml(modules)", "java", NoneStr) }

\* what scan_modules yields: modules named by their own manifest
ScannedPool ==
    { Module(<<"m", "o", "d">>, <<"m", "o", "d">>, "build.gradle.kts", "java", NoneStr),
      Module(<<"u", "i">>, <<"m", "o", "d">>, "package.json", "node", NoneStr),
      Module(<<"r">>, <<".">>, "package.json", "node", NoneStr),
      Module(<<"t">>, <<"t", "e", "s", "t", "/", "m">>, "pom.xml", "java", NoneStr) }

MaxDeclared == 2

MaxHistory == 23

\* message histories: distinct messages, and histories that repeat messages
TrimHistories ==
    {[i \in 1..n |-> i] : n \in 0..MaxHistory}
        \cup {[i \in 1..n |-> i % 3] : n \in 0..MaxHistory}

\* candidate lists as any caller may pass them: repetitions allowed
DirectCandidateLists == SeqsUpTo(DirectCandidatePool, MaxCandidates)

DiscoverCalls ==
    { [fn |-> "discover_modules", declared |-> d, scanned |-> sc] :
          d \in SeqsUpTo(DeclaredPool, MaxDeclared),
          sc \in SeqsUpTo(ScannedPool, MaxModules) }

BestMatchCalls ==
    { [fn |-> "_best_deterministic_match", modules |-> ms, candidates |-> cs] :
          ms \in DirectModuleLists, cs \in DirectCandidateLists }

TrimCalls == { [fn |-> "_trim_messages", messages |-> h] : h \in TrimHistories }

ExtractCalls ==
    { [fn |-> "extract_search_term",
       module |-> Module(n, <<".">>, "manifest", e, o)] :
          n \in DirectNames, e \in Ecosystem, o \in DirectOverrides }

ScoreCalls ==
    { [fn |-> "score_candidate",
       module |-> Module(<<"m">>, <<".">>, "manifest", e, NoneStr),
       candidate |-> AppCandidate("id", n, l),
       search_term |-> t] :
          e \in Ecosystem, n \in DirectNames, l \in Languages, t \in DirectNames }

ResolveCalls ==
    { [fn |-> "resolve_module", module |-> m, candidates |-> cs, threshold |-> t] :
          m \in ModulePool, cs \in DirectCandidateLists, t \in DirectThresholds }

AmbiguousCalls ==
    { [fn |-> "_is_ambiguous", module |-> m, candidates |-> cs, floor |-> f] :
          m \in ModulePool, cs \in DirectCandidateLists, f \in DirectFloors }

DirectInit ==
    /\ pc = "idle"
    /\ entry = "none"
    /\ modules = <<>>
    /\ candidates = <<>>
    /\ confidence_threshold = 0
    /\ llm_config = FALSE
    /\ best = None
    /\ ambiguous = FALSE
    /\ results = <<>>
    /\ matched = <<>>
    /\ unmatched_paths = <<>>
    /\ llm_batch = <<>>
    /\ llm_i = 0
    /\ llm_results = <<>>
    /\ llm_matched = <<>>
    /\ agent_calls = <<>>
    /\ agent_returns = <<>>
    /\ ret = None
    /\ raised = "none"
    /\ \/ call \in ExtractCalls
       \/ call \in ScoreCalls
       \/ call \in ResolveCalls
       \/ call \in AmbiguousCalls
       \/ call \in DiscoverCalls
       \/ call \in BestMatchCalls
       \/ call \in TrimCalls
    /\ out = None
    /\ _stdio_cm = "unset"
    /\ _session_cm = "unset"
    /\ page = 1
    /\ requested = <<>>
    /\ served = <<>>
    /\ all_candidates = <<>>
    /\ teardown = <<>>

\* the direct call returns v
DirectReturn(v) ==
    /\ pc = "idle"
    /\ pc' = "done"
    /\ out' = v
    /\ UNCHANGED <<entry, modules, candidates, confidence_threshold, llm_config, best,
                   ambiguous, results, matched, unmatched_paths, llm_batch, llm_i,
                   llm_results, llm_matched, agent_calls, agent_returns, ret, raised,
                   call, mcp_vars>>

call_extract_search_term ==
    /\ call.fn = "extract_search_term"
    /\ DirectReturn(extract_search_term(call.module))

call_score_candidate ==
    /\ call.fn = "score_candidate"
    /\ DirectReturn(score_candidate(call.module, call.candidate, call.search_term))

call_resolve_module ==
    /\ call.fn = "resolve_module"
    /\ DirectReturn(resolve_module(call.module, call.candidates, call.threshold))

call_is_ambiguous ==
    /\ call.fn = "_is_ambiguous"
    /\ DirectReturn(_is_ambiguous(call.module, call.candidates, call.floor))

call_discover_modules ==
    /\ call.fn = "discover_modules"
    /\ DirectReturn(discover_modules(call.declared, call.scanned))

call_best_deterministic_match ==
    /\ call.fn = "_best_deterministic_match"
    /\ DirectReturn(_best_deterministic_match(call.modules, call.candidates))

call_trim_messages ==
    /\ call.fn = "_trim_messages"
    /\ DirectReturn(_trim_messages(call.messages))

DirectNext ==
    \/ call_extract_search_term
    \/ call_score_candidate
    \/ call_resolve_module
    \/ call_is_ambiguous
    \/ call_discover_modules
    \/ call_best_deterministic_match
    \/ call_trim_messages

DirectSpec == DirectInit /\ [][DirectNext]_vars

-----------------------------------------------------------------------------
(* The registry connection (mcp_contrast.py): the block                     *)
(*     async with ContrastMCP(config) as mcp:                                *)
(*         apps = await mcp.list_applications()                              *)
(* of identify_repo and of pipeline.run, one action per await                *)

\* the pages the server may be asked for
MaxPages == 3

\* one block of a tool result: a non-text block, or a text block whose text
\* is no JSON ("invalid"), a JSON list of apps ("list"), a JSON object with
\* "items" and "hasMorePages" ("items"), or a JSON object of one app ("app")
Block(type, json, apps, hasMorePages) ==
    [type |-> type, json |-> json, apps |-> apps, hasMorePages |-> hasMorePages]

\* an app of the server's answer without an id
NamelessApp == AppCandidate("", <<"n">>, "Java")

ToolResults ==
    { <<Block("text", "items", <<AppCandidate("1", <<"a", "-", "b">>, "Java")>>, TRUE)>>,
      <<Block("text", "items", <<AppCandidate("2", <<"c", "-", "a", "-", "b">>, "Java"),
                                 AppCandidate("3", <<"C">>, "Node")>>, TRUE)>>,
      <<Block("text", "items", <<AppCandidate("1", <<"a", "-", "b">>, "Java")>>, FALSE)>>,
      <<Block("text", "items", <<>>, TRUE)>>,
      <<Block("text", "items", <<NamelessApp>>, TRUE)>>,
      <<Block("text", "list", <<AppCandidate("3", <<"C">>, "Node")>>, FALSE)>>,
      <<Block("image", "invalid", <<>>, FALSE), Block("text", "invalid", <<>>, FALSE)>>,
      <<Block("text", "list", <<AppCandidate("2", <<"c", "-", "a", "-", "b">>, "Java")>>, FALSE),
        Block("text", "items", <<AppCandidate("3", <<"C">>, "Node")>>, TRUE)>>,
      <<Block("text", "app", <<AppCandidate("3", <<"C">>, "Node")>>, FALSE)>> }

\* the apps of one block that have an id and a name
ParsedApps(block) ==
    IF block.type # "text" \/ block.json = "invalid"
      THEN <<>>
      ELSE SelectSeq(block.apps, LAMBDA app : app.app_id # "" /\ app.name # <<>>)

RECURSIVE ParseOver(_, _)
ParseOver(content, i) ==
    IF i > Len(content) THEN <<>>
    ELSE ParsedApps(content[i]) \o ParseOver(content, i + 1)

_parse_candidates(result) == ParseOver(result, 1)

\* the first text block that holds a JSON object decides
RECURSIVE HasMoreOver(_, _)
HasMoreOver(content, i) ==
    IF i > Len(content) THEN FALSE
    ELSE IF content[i].type = "text" /\ content[i].json \in {"items", "app"}
      THEN content[i].hasMorePages
    ELSE HasMoreOver(content, i + 1)

_has_more_pages(result) == HasMoreOver(result, 1)

\* everything the connection leaves alone
fetch_rest ==
    <<modules, confidence_threshold, llm_config, best, ambiguous, results, matched,
      unmatched_paths, llm_batch, llm_i, llm_results, llm_matched, agent_calls,
      agent_returns, ret, call, out>>

McpInit ==
    /\ pc = "fetch"
    /\ entry \in {"identify_repo", "run"}
    /\ modules = <<>>
    /\ candidates = <<>>
    /\ confidence_threshold = 0
    /\ llm_config = FALSE
    /\ best = None
    /\ ambiguous = FALSE
    /\ results = <<>>
    /\ matched = <<>>
    /\ unmatched_paths = <<>>
    /\ llm_batch = <<>>
    /\ llm_i = 0
    /\ llm_results = <<>>
    /\ llm_matched = <<>>
    /\ agent_calls = <<>>
    /\ agent_returns = <<>>
    /\ ret = None
    /\ raised = "none"
    /\ call = [fn |-> "none"]
    /\ out = None
    /\ _stdio_cm = "unset"
    /\ _session_cm = "unset"
    /\ page = 1
    /\ requested = <<>>
    /\ served = <<>>
    /\ all_candidates = <<>>
    /\ teardown = <<>>

\* __aenter__: the transport starts
stdio_aenter_ok ==
    /\ pc = "fetch"
    /\ _stdio_cm' = "entered"
    /\ pc' = "session_aenter"
    /\ UNCHANGED <<entry, candidates, raised, _session_cm, page, requested, served,
                   all_candidates, teardown, fetch_rest>>

\* __aenter__: the transport fails to start; nothing was opened
stdio_aenter_raises ==
    /\ pc = "fetch"
    /\ pc' = "raised"
    /\ raised' = "StdioError"
    /\ UNCHANGED <<entry, candidates, _stdio_cm, _session_cm, page, requested, served,
                   all_candidates, teardown, fetch_rest>>

\* __aenter__: the session is entered
session_aenter_ok ==
    /\ pc = "session_aenter"
    /\ _session_cm' = "entered"
    /\ pc' = "initialize"
    /\ UNCHANGED <<entry, candidates, raised, _stdio_cm, page, requested, served,
                   all_candidates, teardown, fetch_rest>>

\* __aenter__: entering the session raises; __aenter__ has no handler and
\* 'async with' calls __aexit__ only after __aenter__ returned
session_aenter_raises ==
    /\ pc = "session_aenter"
    /\ pc' = "raised"
    /\ raised' = "SessionError"
    /\ UNCHANGED <<entry, candidates, _stdio_cm, _session_cm, page, requested, served,
                   all_candidates, teardown, fetch_rest>>

\* __aenter__: the handshake succeeds and the body of the block starts:
\* list_applications with an empty list and page 1
initialize_ok ==
    /\ pc = "initialize"
    /\ pc' = "list_applications"
    /\ page' = 1
    /\ all_candidates' = <<>>
    /\ UNCHANGED <<entry, candidates, raised, _stdio_cm, _session_cm, requested, served,
                   teardown, fetch_rest>>

\* __aenter__: the handshake raises; as for session_aenter_raises
initialize_raises ==
    /\ pc = "initialize"
    /\ pc' = "raised"
    /\ raised' = "InitializeError"
    /\ UNCHANGED <<entry, candidates, _stdio_cm, _session_cm, page, requested, served,
                   all_candidates, teardown, fetch_rest>>

\* list_applications_page that leaves the loop only on a page that both
\* reports no more pages and has no candidates
list_applications_page_BreakOnBoth(result) ==
    /\ pc = "list_applications"
    /\ page < MaxPages \/ (~_has_more_pages(result) /\ _parse_candidates(result) = <<>>)
    /\ requested' = Append(requested, page)
    /\ served' = Append(served, result)
    /\ all_candidates' = all_candidates \o _parse_candidates(result)
    /\ IF ~_has_more_pages(result) /\ _parse_candidates(result) = <<>>
         THEN /\ candidates' = all_candidates'
              /\ pc' = "session_aexit"
              /\ page' = page
         ELSE /\ page' = page + 1
              /\ UNCHANGED <<candidates, pc>>
    /\ UNCHANGED <<entry, raised, _stdio_cm, _session_cm, teardown, fetch_rest>>

\* list_applications: one turn of the loop, from the request of a page to the
\* break or the next page number; the return value is bound to apps and the
\* block is left
list_applications_page(result) ==
    /\ pc = "list_applications"
    /\ page < MaxPages \/ ~_has_more_pages(result) \/ _parse_candidates(result) = <<>>
    /\ requested' = Append(requested, page)
    /\ served' = Append(served, result)
    /\ all_candidates' = all_candidates \o _parse_candidates(result)
    /\ IF ~_has_more_pages(result) \/ _parse_candidates(result) = <<>>
         THEN /\ candidates' = all_candidates'
              /\ pc' = "session_aexit"
              /\ page' = page
         ELSE /\ page' = page + 1
              /\ UNCHANGED <<candidates, pc>>
    /\ UNCHANGED <<entry, raised, _stdio_cm, _session_cm, teardown, fetch_rest>>

\* list_applications: call_tool raises; the exception leaves the block
\* through __aexit__
call_tool_raises ==
    /\ pc = "list_applications"
    /\ requested' = Append(requested, page)
    /\ raised' = "ToolError"
    /\ pc' = "session_aexit"
    /\ UNCHANGED <<entry, candidates, _stdio_cm, _session_cm, page, served,
                   all_candidates, teardown, fetch_rest>>

\* __aexit__: the session is closed
session_aexit_ok ==
    /\ pc = "session_aexit"
    /\ _session_cm' = "exited"
    /\ teardown' = Append(teardown, "session")
    /\ pc' = "stdio_aexit"
    /\ UNCHANGED <<entry, candidates, raised, _stdio_cm, page, requested, served,
                   all_candidates, fetch_rest>>

\* __aexit__: closing the session raises; the statement that closes the
\* transport is not reached
session_aexit_raises(closed) ==
    /\ pc = "session_aexit"
    /\ _session_cm' = IF closed THEN "exited" ELSE "entered"
    /\ teardown' = IF closed THEN Append(teardown, "session") ELSE teardown
    /\ pc' = "raised"
    /\ raised' = "SessionCloseError"
    /\ UNCHANGED <<entry, candidates, _stdio_cm, page, requested, served,
                   all_candidates, fetch_rest>>

\* __aexit__: the transport is closed; __aexit__ returns None, so an
\* exception of the body goes on to the caller
stdio_aexit_ok ==
    /\ pc = "stdio_aexit"
    /\ _stdio_cm' = "exited"
    /\ teardown' = Append(teardown, "stdio")
    /\ pc' = IF raised = "none" THEN "fetched" ELSE "raised"
    /\ UNCHANGED <<entry, candidates, raised, _session_cm, page, requested, served,
                   all_candidates, fetch_rest>>

\* __aexit__: closing the transport raises
stdio_aexit_raises(closed) ==
    /\ pc = "stdio_aexit"
    /\ _stdio_cm' = IF closed THEN "exited" ELSE "entered"
    /\ teardown' = IF closed THEN Append(teardown, "stdio") ELSE teardown
    /\ pc' = "raised"
    /\ raised' = "StdioCloseError"
    /\ UNCHANGED <<entry, candidates, _session_cm, page, requested, served,
                   all_candidates, fetch_rest>>

McpNext ==
    \/ stdio_aenter_ok
    \/ stdio_aenter_raises
    \/ session_aenter_ok
    \/ session_aenter_raises
    \/ initialize_ok
    \/ initialize_raises
    \/ \E result \in ToolResults : list_applications_page(result)
    \/ call_tool_raises
    \/ session_aexit_ok
    \/ \E closed \in BOOLEAN : session_aexit_raises(closed)
    \/ stdio_aexit_ok
    \/ \E closed \in BOOLEAN : stdio_aexit_raises(closed)

McpSpec == McpInit /\ [][McpNext]_vars

\* every await of the block is resumed: the server answers or the call fails
McpLiveSpec == McpInit /\ [][McpNext]_vars /\ WF_vars(McpNext)

-----------------------------------------------------------------------------
(* Vocabulary of the properties *)

Returned == pc = "done"

\* the deterministic phase has run on fetched candidates
Fetched == pc \notin {"idle", "fetch"} /\ raised # "RegistryError"

ScoreOf(module, candidate) ==
    score_candidate(module, candidate, extract_search_term(module))

\* the candidates that score at least the ambiguity floor for the module
StrongCandidates(module) ==
    {i \in 1..Len(candidates) : ScoreOf(module, candidates[i]) >= AMBIGUITY_FLOOR}

HasOverride(module) == Truthy(module.contrast_app_name)

\* ambiguous: at least two strong candidates and no override
Ambiguous(module) == ~HasOverride(module) /\ Cardinality(StrongCandidates(module)) >= 2

InvokedFor(module) == \E i \in 1..Len(agent_calls) : agent_calls[i].module = module

ModulePaths == {modules[i].path : i \in 1..Len(modules)}

\* the modules that pipeline.run reports as deterministically matched
ReportedDeterministic ==
    {DictGet(ret.matched, p).module : p \in DictKeys(ret.matched)}

Max(S) == CHOOSE x \in S : \A y \in S : y <= x

\* the scores of a candidate list for a module's own search term
ScoresOver(module, cands) == {ScoreOf(module, cands[i]) : i \in 1..Len(cands)}

\* a direct call of fn has returned
Called(fn) == pc = "done" /\ call.fn = fn

-----------------------------------------------------------------------------
(* Properties *)

\* C1 (as claimed): in both entry points a module is reported as
\* deterministically matched only if its score is >= the threshold and it is
\* not ambiguous, and otherwise (candidates and modules present, agent
\* configured) the fallback agent is invoked for it.
C1_DeterministicOnlyIfUnambiguous ==
    /\ (Returned /\ entry = "run") =>
          /\ \A m \in ReportedDeterministic : ~Ambiguous(m)
          /\ \A p \in DictKeys(ret.matched) :
                 DictGet(ret.matched, p).confidence >= confidence_threshold
          /\ \A i \in 1..Len(modules) :
                 (candidates # <<>> /\ modules[i] \notin ReportedDeterministic)
                     => InvokedFor(modules[i])
    /\ (Returned /\ entry = "identify_repo" /\ candidates # <<>> /\ modules # <<>>) =>
          IF agent_calls = <<>>
            THEN llm_config =>
                    /\ ret # None
                    /\ ret.confidence >= confidence_threshold
                    /\ ~Ambiguous(ret.module)
            ELSE best # None => agent_calls[1].module = best.module

\* C2 (as claimed): with zero candidates neither entry point invokes the
\* agent; identify_repo returns absent and run returns every module path as
\* unresolved with empty deterministic and agent match sets.
C2_ZeroCandidatesNoAgent ==
    (Fetched /\ candidates = <<>>) =>
        /\ agent_calls = <<>>
        /\ Returned
        /\ entry = "identify_repo" => ret = None
        /\ entry = "run" =>
              /\ ret.matched = <<>>
              /\ ret.llm_matched = <<>>
              /\ Range(ret.unmatched) = ModulePaths

\* C3 (as claimed): an exception at any step of llm resolve_module makes it
\* return absent; none propagates, and a finished batch holds an entry for
\* every module it was given.
C3_AgentFailureContained ==
    /\ raised \notin SetupSteps
    /\ \A i \in 1..Len(agent_returns) :
           agent_returns[i].outcome = "error" => agent_returns[i].value = None
    /\ (Returned /\ entry = "run") =>
           DictKeys(llm_results) = {llm_batch[i].path : i \in 1..Len(llm_batch)}

C5_ResolveModulesCoversEach ==
    (Fetched /\ entry = "run" /\ UniqueKeys(modules)) =>
        /\ Len(results) = Len(modules)
        /\ \A i \in 1..Len(modules) :
               DictGet(results, modules[i].path)
                   = resolve_module(modules[i], candidates, confidence_threshold)

\* C6 (as claimed): every match either mode emits carries a numeric
\* confidence in [0,1]; the agent's category has been mapped through
\* _LLM_CONFIDENCE_MAP before the match is stored.
C6_ConfidenceNumeric ==
    /\ (Returned /\ entry = "identify_repo" /\ ret # None) =>
           ret.confidence \in 0..ScoreUnit
    /\ (Returned /\ entry = "run") =>
           /\ \A p \in DictKeys(ret.matched) :
                  DictGet(ret.matched, p).confidence \in 0..ScoreUnit
           /\ \A p \in DictKeys(ret.llm_matched) :
                  DictGet(ret.llm_matched, p).confidence \notin DOMAIN _LLM_CONFIDENCE_MAP

\* C7 (as claimed): every Match identify_repo returns carries a provenance
\* tag, "deterministic" from scoring and "llm" from the agent, and an agent
\* result with a concrete identifier is returned as a Match with the agent's
\* application id and the mapped confidence.
C7_Provenance ==
    entry = "identify_repo" =>
        /\ (Returned /\ ret # None) =>
               /\ "source" \in DOMAIN ret
               /\ ret.source = IF agent_calls = <<>> THEN "deterministic" ELSE "llm"
        /\ (agent_returns # <<>> /\ agent_returns[1].outcome = "match") =>
               /\ Returned
               /\ ret # None
               /\ ret.app_id = agent_returns[1].value.application_id
               /\ ret.confidence = _LLM_CONFIDENCE_MAP[agent_returns[1].value.confidence]

\* C8 (as claimed): an agent result with the identifier NOT_FOUND is
\* translated to absent, no stored or returned match has NOT_FOUND as its
\* application id, and the module ends in the unresolved set.
C8_NotFoundIsAbsent ==
    /\ \A i \in 1..Len(agent_returns) :
           agent_returns[i].outcome = "not_found" => agent_returns[i].value = None
    /\ (Returned /\ entry = "identify_repo" /\ ret # None) => ret.app_id # "NOT_FOUND"
    /\ (Returned /\ entry = "run") =>
           /\ \A p \in DictKeys(ret.llm_matched) :
                  DictGet(ret.llm_matched, p).application_id # "NOT_FOUND"
           /\ \A i \in 1..Len(agent_returns) :
                  agent_returns[i].outcome = "not_found"
                      => agent_calls[i].module.path \in Range(ret.unmatched)

\* The characters the sanitizer is to remove, and its length limit
ForbiddenChars == {"{", "}", "<", ">", "`", "'", "\"", "=", "\r", "\n", "\t", "\\0"}

SANITIZE_MAX_LEN == 200

Sanitized(text) == Len(text) <= SANITIZE_MAX_LEN /\ \A i \in 1..Len(text) : text[i] \notin ForbiddenChars

\* C9 (as claimed): every module-derived string interpolated into the agent's
\* instructions or prompt is sanitized: no control character, none of
\* { } < > ` ' " =, at most 200 characters.
C9_InterpolatedSanitized ==
    \A i \in 1..Len(agent_calls) :
        \A f \in DOMAIN agent_calls[i].instructions :
            Sanitized(agent_calls[i].instructions[f])

\* C10 (as claimed): in single-best mode with an agent configured, when the
\* best-scoring module has no override and at least two candidates score
\* >= 0.6 for it, the agent is invoked, and once it has finished identify_repo
\* returns the agent's match or absent, never the deterministic match.
C10_AmbiguousGoesToAgent ==
    (/\ entry = "identify_repo"
     /\ Fetched
     /\ llm_config
     /\ best # None
     /\ Ambiguous(best.module)) =>
        /\ agent_calls # <<>>
        /\ agent_calls[1].module = best.module
        /\ Returned => ret # best
        /\ agent_returns # <<>> =>
               /\ Returned
               /\ agent_returns[1].outcome # "match" => ret = None
               /\ agent_returns[1].outcome = "match" =>
                      /\ ret # None
                      /\ ret.app_id = agent_returns[1].value.application_id

\* C11: in identify_repo, when the best match belongs to a module with a
\* non-empty override name and its confidence is >= the threshold, that match
\* is returned and the agent is never invoked, however many candidates score
\* >= the ambiguity floor.
C11_OverrideSkipsAmbiguity ==
    (/\ entry = "identify_repo"
     /\ Fetched
     /\ best # None
     /\ HasOverride(best.module)
     /\ best.confidence >= confidence_threshold) =>
        /\ agent_calls = <<>>
        /\ Returned
        /\ ret = best

\* C11 witness: identify_repo, with an agent configured, has returned the match
\* of an override module for which two candidates clear the ambiguity floor
C11_Witness ==
    /\ entry = "identify_repo"
    /\ Returned
    /\ llm_config
    /\ ret # None
    /\ HasOverride(ret.module)
    /\ Cardinality(StrongCandidates(ret.module)) >= 2
    /\ agent_calls = <<>>

\* C12 (as claimed): resolver.resolve_module returns a Match exactly when the
\* candidate list is non-empty and the maximum score is >= the threshold, for
\* every threshold in [0,1] including 0.0; the Match names a candidate scoring
\* that maximum, its confidence is that maximum and its search term is
\* extract_search_term(module).
C12_ResolveModuleThreshold ==
    Called("resolve_module") =>
        LET m == call.module
            cs == call.candidates
            S == ScoresOver(m, cs)
        IN  /\ (out # None) <=> (cs # <<>> /\ Max(S) >= call.threshold)
            /\ out # None =>
                  /\ \E i \in 1..Len(cs) :
                         /\ cs[i].app_id = out.app_id
                         /\ cs[i].name = out.app_name
                         /\ ScoreOf(m, cs[i]) = Max(S)
                  /\ out.confidence = Max(S)
                  /\ out.search_term = extract_search_term(m)
                  /\ out.module = m

\* C12 (amended): resolver.resolve_module returns a Match exactly when the
\* candidate list is non-empty and the maximum score is above 0 and >= the
\* threshold; the Match names a candidate scoring that maximum, its
\* confidence is that maximum and its search term is
\* extract_search_term(module).
C12_ResolveModulePositiveMax ==
    Called("resolve_module") =>
        LET m == call.module
            cs == call.candidates
            S == ScoresOver(m, cs)
        IN  /\ (out # None) <=>
                  (cs # <<>> /\ Max(S) > 0 /\ Max(S) >= call.threshold)
            /\ out # None =>
                  /\ \E i \in 1..Len(cs) :
                         /\ cs[i].app_id = out.app_id
                         /\ cs[i].name = out.app_name
                         /\ ScoreOf(m, cs[i]) = Max(S)
                  /\ out.confidence = Max(S)
                  /\ out.search_term = extract_search_term(m)
                  /\ out.module = m

\* C12 witness: resolve_module has returned a Match whose confidence equals
\* the threshold, chosen among candidates of different scores
C12_Witness ==
    /\ Called("resolve_module")
    /\ out # None
    /\ out.confidence = call.threshold
    /\ Cardinality(ScoresOver(call.module, call.candidates)) >= 2

\* C13: _is_ambiguous returns true if and only if at least two candidates of
\* the list score >= floor for the module's search term (false for zero or
\* one), and it returns the same for every reordering of the list.
C13_AmbiguousIffTwoStrong ==
    Called("_is_ambiguous") =>
        LET m == call.module
            cs == call.candidates
            strong == {i \in 1..Len(cs) : ScoreOf(m, cs[i]) >= call.floor}
        IN  /\ out = (Cardinality(strong) >= 2)
            /\ Cardinality(strong) <= 1 => out = FALSE
            /\ \A p \in Permutations(1..Len(cs)) :
                   _is_ambiguous(m, [i \in 1..Len(cs) |-> cs[p[i]]], call.floor) = out

\* C13 witness: _is_ambiguous has returned true at the 0.6 floor for a list of
\* two different candidates
C13_Witness ==
    /\ Called("_is_ambiguous")
    /\ out = TRUE
    /\ call.floor = AMBIGUITY_FLOOR
    /\ Len(call.candidates) >= 2
    /\ call.candidates[1] # call.candidates[2]

\* the language tag the registry uses for each ecosystem
LanguageOf ==
    [java |-> "Java", node |-> "Node", python |-> "Python", go |-> "Go",
     ruby |-> "Ruby", dotnet |-> ".NET Core", php |-> "PHP"]

\* C14: when the lowercased search term equals the lowercased candidate name,
\* score_candidate returns 1.0 if the candidate's language tag is the one
\* mapped from the module's ecosystem (java->Java, node->Node,
\* python->Python, go->Go, ruby->Ruby, dotnet->.NET Core, php->PHP) and 0.8
\* otherwise.
C14_ExactMatchScore ==
    (/\ Called("score_candidate")
     /\ Lower(call.search_term) = Lower(call.candidate.name)) =>
        out = IF call.candidate.language = LanguageOf[call.module.ecosystem]
                THEN ScoreUnit
                ELSE (8 * ScoreUnit) \div 10

\* C14 witness: score_candidate has returned 1.0 for a dotnet module and a
\* candidate whose name differs from the search term in case only
C14_Witness ==
    /\ Called("score_candidate")
    /\ call.module.ecosystem = "dotnet"
    /\ call.search_term # call.candidate.name
    /\ Lower(call.search_term) = Lower(call.candidate.name)
    /\ out = ScoreUnit

\* C15: for a pair whose lowercased names differ and whose token sets are both
\* non-empty, score_candidate is 0.7 * |intersection| / |union| plus 0.2 when
\* the candidate's language matches the module's ecosystem; it lies in
\* [0, 0.9], no overlap gives exactly the bonus (0.2 or 0.0), and no call
\* returns 1.0 outside the exact-match branch.
C15_TokenOverlapScore ==
    Called("score_candidate") =>
        LET T == _tokenize(call.search_term)
            A == _tokenize(call.candidate.name)
            exact == Lower(call.search_term) = Lower(call.candidate.name)
            bonus == IF call.candidate.language = LanguageOf[call.module.ecosystem]
                       THEN (2 * ScoreUnit) \div 10 ELSE 0
        IN  /\ (~exact /\ T # {} /\ A # {}) =>
                  /\ 10 * Cardinality(T \cup A) * (out - bonus)
                         = 7 * Cardinality(T \cap A) * ScoreUnit
                  /\ out >= 0
                  /\ 10 * out <= 9 * ScoreUnit
                  /\ T \cap A = {} => out = bonus
            /\ out = ScoreUnit => exact

\* C15 witness: score_candidate has returned 0.9 for different names with the
\* same tokens and a matching language
C15_Witness ==
    /\ Called("score_candidate")
    /\ Lower(call.search_term) # Lower(call.candidate.name)
    /\ _tokenize(call.search_term) = _tokenize(call.candidate.name)
    /\ Cardinality(_tokenize(call.search_term)) = 2
    /\ 10 * out = 9 * ScoreUnit

\* a string that tokenizes to the empty set: empty, or made of the separators
\* - _ . and whitespace only
NoTokens(text) == \A i \in 1..Len(text) : text[i] \in {"-", "_", ".", " ", "\t", "\n", "\r"}

\* C16 (as claimed): if the search term or the candidate name tokenizes to an
\* empty set (empty string, or only the separators - _ . and whitespace),
\* score_candidate returns 0.0.
C16_EmptyTokensScoreZero ==
    (/\ Called("score_candidate")
     /\ (NoTokens(call.search_term) \/ NoTokens(call.candidate.name))) =>
        out = 0

\* C16 (amended): if the search term or the candidate name tokenizes to an
\* empty set and the two differ after lowercasing, score_candidate returns
\* 0.0, whatever the languages.
C16_EmptyTokensScoreZeroUnlessExact ==
    (/\ Called("score_candidate")
     /\ (NoTokens(call.search_term) \/ NoTokens(call.candidate.name))
     /\ Lower(call.search_term) # Lower(call.candidate.name)) =>
        out = 0

\* C16 witness: score_candidate has returned 0.0 for a separator-only search
\* term against a candidate with tokens and a matching language
C16_Witness ==
    /\ Called("score_candidate")
    /\ call.search_term # <<>>
    /\ NoTokens(call.search_term)
    /\ ~NoTokens(call.candidate.name)
    /\ call.candidate.language = LanguageOf[call.module.ecosystem]
    /\ out = 0

\* the declared name, or what follows one of its ':' or '/'
DerivedFromName(text, name) ==
    \/ text = name
    \/ \E i \in 1..Len(name) :
           /\ name[i] \in {":", "/"}
           /\ text = SubSeq(name, i + 1, Len(name))

\* C17: for a module with a non-empty override name, whatever its ecosystem
\* and declared name, extract_search_term returns the override verbatim; with
\* the override absent or empty the result is derived from the declared name
\* only (the name, or what follows one of its ':' or '/'), the same for both.
C17_OverridePrecedence ==
    Called("extract_search_term") =>
        LET m == call.module IN
        IF m.contrast_app_name \notin {NoneStr, <<>>}
          THEN out = m.contrast_app_name
          ELSE /\ DerivedFromName(out, m.name)
               /\ out = extract_search_term([m EXCEPT !.contrast_app_name = NoneStr])
               /\ out = extract_search_term([m EXCEPT !.contrast_app_name = <<>>])

\* C17 witness: extract_search_term has returned the override of a java module
\* whose declared name and override both carry a ':' that the Maven rule cuts at
C17_Witness ==
    /\ Called("extract_search_term")
    /\ call.module.ecosystem = "java"
    /\ Contains(call.module.name, ":")
    /\ call.module.contrast_app_name # NoneStr
    /\ Contains(call.module.contrast_app_name, ":")
    /\ out = call.module.contrast_app_name

\* C18 (as claimed): for a module without override whose ecosystem is go or
\* php and whose declared name contains '/', extract_search_term returns the
\* final path segment: the text after the last '/', itself without '/'.
C18_FinalPathSegment ==
    (/\ Called("extract_search_term")
     /\ call.module.contrast_app_name \in {NoneStr, <<>>}
     /\ call.module.ecosystem \in {"go", "php"}
     /\ Contains(call.module.name, "/")) =>
        /\ ~Contains(out, "/")
        /\ \E i \in 1..Len(call.module.name) :
               /\ call.module.name[i] = "/"
               /\ out = SubSeq(call.module.name, i + 1, Len(call.module.name))

\* the scores of every (module, candidate) pair of the run
AllScores ==
    {ScoreOf(modules[i], candidates[j]) :
        i \in 1..Len(modules), j \in 1..Len(candidates)}

\* identify_repo has returned a match without invoking the agent
ReturnedDeterministic ==
    /\ entry = "identify_repo"
    /\ Returned
    /\ ret # None
    /\ agent_calls = <<>>

\* C19: a deterministic match returned by identify_repo is one match, for a
\* (module, candidate) pair whose score is the maximum over all discovered
\* modules and all candidates; its confidence is that maximum and is >= the
\* confidence threshold.
C19_SingleBestAcrossModules ==
    ReturnedDeterministic =>
        /\ ret.confidence = Max(AllScores)
        /\ ret.confidence >= confidence_threshold
        /\ \E i \in 1..Len(modules), j \in 1..Len(candidates) :
               /\ ret.module = modules[i]
               /\ ret.app_id = candidates[j].app_id
               /\ ret.app_name = candidates[j].name
               /\ ScoreOf(modules[i], candidates[j]) = Max(AllScores)

\* C19 witness: identify_repo has returned the match of its second module,
\* the first module scoring above 0 but lower
C19_Witness ==
    /\ ReturnedDeterministic
    /\ Len(modules) >= 2
    /\ ret.module = modules[2]
    /\ ret.module # modules[1]
    /\ Max(ScoresOver(modules[1], candidates)) > 0
    /\ Max(ScoresOver(modules[1], candidates)) < ret.confidence

\* C20: identify_repo invokes the agent at most once per run, only with an
\* agent configured and only when the best score is below the threshold or the
\* best module is ambiguous; the target is the module of the best-scoring
\* deterministic match, or the first discovered module when no pair scored
\* above 0.
C20_AgentAtMostOnce ==
    entry = "identify_repo" =>
        /\ Len(agent_calls) <= 1
        /\ agent_calls # <<>> =>
              LET target == agent_calls[1].module IN
              /\ llm_config
              /\ Max(AllScores) < confidence_threshold \/ Ambiguous(target)
              /\ IF Max(AllScores) > 0
                   THEN /\ target \in Range(modules)
                        /\ Max(ScoresOver(target, candidates)) = Max(AllScores)
                        /\ target = best.module
                   ELSE target = modules[1]

\* C20 witness: with two modules and no pair scoring above 0, identify_repo
\* has invoked the agent once, on the first module
C20_Witness ==
    /\ entry = "identify_repo"
    /\ Len(modules) >= 2
    /\ candidates # <<>>
    /\ Max(AllScores) = 0
    /\ Len(agent_calls) = 1
    /\ agent_calls[1].module = modules[1]
    /\ agent_returns # <<>>

\* C21: when discovery yields zero modules, both entry points finish without
\* invoking the agent and without raising: identify_repo returns absent and
\* run returns a PipelineResult with empty matched, llm_matched and unmatched
\* and total 0.
C21_ZeroModulesNoAgent ==
    (Fetched /\ modules = <<>>) =>
        /\ Returned
        /\ raised = "none"
        /\ agent_calls = <<>>
        /\ entry = "identify_repo" => ret = None
        /\ entry = "run" => ret = PipelineResult(<<>>, <<>>, <<>>, 0)

\* C21 witness: run has returned for zero modules against a non-empty registry
C21_Witness ==
    /\ entry = "run"
    /\ Returned
    /\ modules = <<>>
    /\ candidates # <<>>

\* the position of a module in the discovered list
IndexIn(mods, m) == CHOOSE i \in 1..Len(mods) : mods[i] = m

\* C22: in run the agent handles the unresolved modules one at a time: never
\* two invocations in flight, an invocation starts only when every earlier one
\* has returned or failed, and the invocations follow the order of the input
\* module list.
C22_SequentialAgent ==
    entry = "run" =>
        /\ Len(agent_calls) - Len(agent_returns) \in {0, 1}
        /\ pc \in {"llm_setup", "agent_run"} => Len(agent_calls) = Len(agent_returns) + 1
        /\ \A i, j \in 1..Len(agent_calls) :
               i < j => IndexIn(modules, agent_calls[i].module)
                            < IndexIn(modules, agent_calls[j].module)

\* C22 witness: the third invocation of a batch is in flight, the first two
\* having ended, one of them by an exception of agent.run
C22_Witness ==
    /\ entry = "run"
    /\ pc = "agent_run"
    /\ Len(agent_calls) = 3
    /\ Len(agent_returns) = 2
    /\ \E i \in 1..2 : agent_returns[i].outcome = "error"

\* C23: the already-matched context of every agent invocation holds only
\* modules resolved before the invocation started (by the deterministic
\* phase): never the module under investigation, a module still waiting for
\* the agent or one the agent resolves later; and no invocation changes it.
C23_SiblingContextResolvedBefore ==
    \A i \in 1..Len(agent_calls) :
        LET am == agent_calls[i].already_matched
            m == agent_calls[i].module
        IN  /\ entry = "identify_repo" => am = <<>>
            /\ entry = "run" => am = matched
            /\ (entry = "run" /\ Returned) => ret.matched = am
            /\ \A k \in DictKeys(am) :
                   LET e == DictGet(am, k) IN
                   /\ k # m.path
                   /\ e # None
                   /\ e.module # m
                   /\ e.module \in Range(modules)
                   /\ e.module \notin Range(llm_batch)
                   /\ e = resolve_module(e.module, candidates, confidence_threshold)

\* C23 witness: the second invocation of a batch has started with a non-empty
\* context after the first invocation returned a match
C23_Witness ==
    /\ entry = "run"
    /\ Len(agent_calls) >= 2
    /\ agent_calls[2].already_matched # <<>>
    /\ agent_returns # <<>>
    /\ agent_returns[1].outcome = "match"

\* the number of agent invocations made for a module
InvocationsOf(module) ==
    Cardinality({i \in 1..Len(agent_calls) : agent_calls[i].module = module})

\* C25 (as claimed): for a module list with unique (path, ecosystem) pairs, a
\* finished run has invoked the agent exactly once for each module that the
\* deterministic phase left unresolved and never for a module it matched; with
\* every module matched the batch is not called.
C25_AgentOncePerUnresolved ==
    (entry = "run" /\ Returned /\ UniqueKeys(modules)) =>
        \A i \in 1..Len(modules) :
            InvocationsOf(modules[i]) =
                IF resolve_module(modules[i], candidates, confidence_threshold) = None
                  THEN 1 ELSE 0

\* the paths for which an invocation before the i-th returned a match
AgentMatchedBefore(i) ==
    {agent_calls[j].module.path :
        j \in {k \in 1..Len(agent_returns) : k < i /\ agent_returns[k].outcome = "match"}}

\* the paths the deterministic phase matched
DeterministicPaths == {p \in DictKeys(results) : DictGet(results, p) # None}

\* C26 (as claimed): the sibling context of an agent invocation lists every
\* module already resolved in the run at that moment: the deterministic
\* matches and the matches of earlier agent invocations of the same batch.
C26_SiblingContextIncludesAgentMatches ==
    entry = "run" =>
        \A i \in 1..Len(agent_calls) :
            DictKeys(agent_calls[i].already_matched)
                = DeterministicPaths \cup AgentMatchedBefore(i)

\* C26 (amended): the sibling context of every agent invocation of a batch
\* lists exactly the modules matched by the deterministic phase, each with its
\* deterministic match; matches of earlier agent invocations of the same
\* batch are not in it.
C26_SiblingContextDeterministicOnly ==
    entry = "run" =>
        \A i \in 1..Len(agent_calls) :
            LET am == agent_calls[i].already_matched IN
            /\ DictKeys(am) = DeterministicPaths
            /\ \A p \in DictKeys(am) : DictGet(am, p) = DictGet(results, p)
            /\ AgentMatchedBefore(i) \cap DictKeys(am) = {}

\* C26 witness: the third invocation of a batch has started after two earlier
\* invocations returned matches
C26_Witness ==
    /\ entry = "run"
    /\ Len(agent_calls) = 3
    /\ Cardinality(AgentMatchedBefore(3)) = 2

\* the (path, ecosystem) pair of a module
PairOf(m) == <<m.path, m.ecosystem>>

FirstMaxIndex(n, f(_)) ==
    CHOOSE i \in 1..n :
        /\ \A j \in 1..n : f(j) <= f(i)
        /\ \A j \in 1..(i - 1) : f(j) < f(i)

\* the candidate resolve_module is to name: the first of greatest score
FirstBestCandidate(m, cs) ==
    LET f(i) == ScoreOf(m, cs[i]) IN cs[FirstMaxIndex(Len(cs), f)]

\* C27: among candidates sharing the maximum score resolve_module selects the
\* first of the list, and among modules of equal best confidence
\* _best_deterministic_match keeps the first in discovery order (with its
\* first best candidate).
C27_FirstSeenWinsTies ==
    /\ (Called("resolve_module") /\ out # None) =>
           /\ out.app_id = FirstBestCandidate(call.module, call.candidates).app_id
           /\ out.app_name = FirstBestCandidate(call.module, call.candidates).name
    /\ (Called("_best_deterministic_match") /\ out # None) =>
           LET ms == call.modules
               cs == call.candidates
               g(i) == Max(ScoresOver(ms[i], cs))
               first == ms[FirstMaxIndex(Len(ms), g)]
           IN  /\ out.module = first
               /\ out.app_id = FirstBestCandidate(first, cs).app_id

\* C27 witness: _best_deterministic_match has returned the first of two
\* modules of equal best confidence, with the first of two different
\* candidates that tie on it
C27_Witness ==
    /\ Called("_best_deterministic_match")
    /\ out # None
    /\ Len(call.modules) >= 2
    /\ Len(call.candidates) = 2
    /\ call.candidates[1].app_id # call.candidates[2].app_id
    /\ out.module = call.modules[1]
    /\ Max(ScoresOver(call.modules[2], call.candidates)) = out.confidence
    /\ ScoreOf(out.module, call.candidates[1]) = ScoreOf(out.module, call.candidates[2])
    /\ out.app_id = call.candidates[1].app_id

\* C29: _trim_messages returns a history of at most 20 messages unchanged and
\* otherwise the first message followed by the 10 most recent ones in their
\* order; the result never exceeds 20 messages, starts with the original
\* first message, and trimming it again changes nothing.
C29_TrimMessages ==
    Called("_trim_messages") =>
        LET h == call.messages
            n == Len(h)
        IN  /\ n <= 20 => out = h
            /\ n > 20 =>
                  /\ Len(out) = 11
                  /\ out[1] = h[1]
                  /\ \A k \in 1..10 : out[1 + k] = h[n - 10 + k]
            /\ Len(out) <= 20
            /\ n > 0 => (out # <<>> /\ out[1] = h[1])
            /\ _trim_messages(out) = out

\* C29 witness: a history of 21 different messages has been trimmed to the
\* first message and the last 10
C29_Witness ==
    /\ Called("_trim_messages")
    /\ Len(call.messages) = 21
    /\ Injective(call.messages)
    /\ Len(out) = 11
    /\ out[2] = call.messages[12]

\* the block was left: to the scoring or with an exception
BlockLeft == pc \in {"fetched", "raised"}

\* the page is the last one to be requested
Stopping(result) == ~_has_more_pages(result) \/ _parse_candidates(result) = <<>>

\* the parsed candidates of the first k answers, in page order
RECURSIVE ParsedUpTo(_)
ParsedUpTo(k) ==
    IF k = 0 THEN <<>> ELSE ParsedUpTo(k - 1) \o _parse_candidates(served[k])

\* C28: the registry connection is torn down on every exit path of the
\* block: once the block is left, with a value or with an exception (a failed
\* session creation or handshake, a failed list_applications, a failed close
\* of the session), neither the transport nor the session is still open, the
\* session is closed before the transport, and both are closed when scoring
\* starts.
C28_TornDownOnEveryExit ==
    /\ BlockLeft => (_stdio_cm # "entered" /\ _session_cm # "entered")
    /\ teardown \in {<<>>, <<"session">>, <<"session", "stdio">>}
    /\ pc = "fetched" => (_stdio_cm = "exited" /\ _session_cm = "exited")

\* C30: list_applications requests the pages 1, 2, 3, ... in this order, asks
\* for no page after the first one that reports no more pages or has no
\* parsed candidates, returns at that page the parsed candidates of all
\* answers in page order, and always leaves its loop.
C30_Paging ==
    /\ requested = [k \in 1..Len(requested) |-> k]
    /\ Len(served) <= Len(requested)
    /\ \A k \in 1..Len(served) : Stopping(served[k]) => Len(requested) = k
    /\ pc = "list_applications" => page = Len(requested) + 1
    /\ (served # <<>> /\ Stopping(served[Len(served)])) =>
           /\ pc # "list_applications"
           /\ candidates = ParsedUpTo(Len(served))

C30_ListApplications ==
    /\ []C30_Paging
    /\ (pc = "list_applications") ~> (pc # "list_applications")

\* C30 witness: three pages were requested, the third one announced more
\* pages but had no candidates, and the three candidates of the first two
\* pages were returned
C30_Witness ==
    /\ pc = "fetched"
    /\ requested = <<1, 2, 3>>
    /\ _has_more_pages(served[3])
    /\ _parse_candidates(served[3]) = <<>>
    /\ Len(candidates) = 3
    /\ Len(_parse_candidates(served[1])) = 2

====
